---- MODULE Spec2Model ----
(***************************************************************************)
(* Model of tchap_red_list.RedListManager: the red list table, the         *)
(* _get_user_status cache, the account-data callback, the directory-search *)
(* callback and the two periodic sweeps.                                   *)
(*                                                                         *)
(* Spec       every callback and sweep runs to completion in one step.     *)
(* SpecDirect the callbacks next to direct calls of _add_to_red_list.      *)
(* SpecConc   update_red_list_status calls and the sweeps interleaved at   *)
(*            their awaits; a database transaction is one step.            *)
(* SpecSetup  the callbacks and sweeps racing the background _setup_db.    *)
(***************************************************************************)
EXTENDS Integers, Sequences, FiniteSets, Bags, TLC

(* ------------------------------ bounds --------------------------------- *)

\* Number of distinct user ids the model draws its inputs from.
NumUsers == 1

\* Largest value of the wall clock (int(time.time() * 1000)) the model reaches.
MaxTime == 1

\* Largest number of update_red_list_status calls in flight at once.
NumTasks == 2

(* ----------------------------- constants ------------------------------- *)

ACCOUNT_DATA_TYPE == "im.vector.hide_profile"

\* An account data type the module does not handle.
OTHER_DATA_TYPE == "org.matrix.foo"

\* The room id a configuration may name as its discovery room.
DISCOVERY_ROOM == "!someroom:test"

\* RedListManagerConfig.discovery_room when no room is configured.
None == "None"

Users == 1..NumUsers

\* Placeholder for "no user" in the record of an operation without a user.
NoUser == NumUsers + 1

\* Expiration timestamps the account validity table may hold.
Timestamps == 0..(MaxTime + 1)

\* Values the "hide_profile" key of an account data content may carry
\* ("missing": the key is absent).
JsonValues == {"missing", "false", "true"}

VARIABLES
    config,                  \* RedListManagerConfig
    tchap_red_list,          \* rows of the red list table
    email_account_validity,  \* rows of the account validity table
    cache,                   \* the @cached() store of _get_user_status
    now_ms,                  \* the wall clock
    last,                    \* the operation that completed last
    fresh,                   \* users read since the last write to their entry
    setup,                   \* how far _setup_db has got
    tables,                  \* the tables that exist in the database
    tasks,                   \* update_red_list_status calls in flight
    loops,                   \* membership calls the sweeps have yet to issue
    failed                   \* errors raised by calls in flight

\* The state of the module's start-up.
lifecycle == <<setup, tables>>

\* The state of the calls suspended at an await.
inflight == <<tasks, loops, failed>>

vars ==
    <<config, tchap_red_list, email_account_validity, cache, now_ms, last, fresh,
      lifecycle, inflight>>

(* ------------------------------ tables --------------------------------- *)

Row(user_id, because_expired) ==
    [user_id |-> user_id, because_expired |-> because_expired]

ValidityRow(user_id, ts) == [user_id |-> user_id, expiration_ts_ms |-> ts]

UserIds(rows) == {r.user_id : r \in rows}

\* The rows of a table with a given primary key.
RowsOf(table, user_id) == {r \in table : r.user_id = user_id}

\* All sequences that list every element of a set once (the row order of a
\* SELECT without ORDER BY).
Orders(S) ==
    {s \in [1..Cardinality(S) -> S] : \A i, j \in 1..Cardinality(S) : s[i] = s[j] => i = j}

SeqToSet(s) == {s[i] : i \in 1..Len(s)}

\* python: [x for x in s if test(x)]
FilterSeq(s, keep) == SelectSeq(s, LAMBDA x : x \in keep)

(* ------------------------------ the cache ------------------------------ *)

\* self._get_user_status.invalidate((user_id,))
Invalidate(c, user_id) == [u \in (DOMAIN c) \ {user_id} |-> c[u]]

\* The cache after a miss on user_id has stored the value it fetched.
Populate(c, user_id, status) ==
    [u \in (DOMAIN c) \cup {user_id} |-> IF u = user_id THEN status ELSE c[u]]

(* --------------------------- units of work ----------------------------- *)

\* Variant: what the function wrote stays when it raises.
run_db_interaction_NoRollback(table, res) == res

\* The host's run_db_interaction: commit when the function returns, roll the
\* table back when it raises.  What the function did outside the database
\* (cache invalidations) is not undone.
run_db_interaction(table, res) ==
    IF res.ok THEN res ELSE [res EXCEPT !.table = table]

\* Variant: the two elements of the returned tuple both taken from the flag.
_get_user_status_txn_Mixed(table, user_id) ==
    IF RowsOf(table, user_id) = {}
    THEN <<FALSE, FALSE>>
    ELSE <<(CHOOSE r \in RowsOf(table, user_id) : TRUE).because_expired,
           (CHOOSE r \in RowsOf(table, user_id) : TRUE).because_expired>>

_get_user_status_txn(table, user_id) ==
    IF RowsOf(table, user_id) = {}
    THEN <<FALSE, FALSE>>
    ELSE <<TRUE, (CHOOSE r \in RowsOf(table, user_id) : TRUE).because_expired>>

\* Variant: a miss runs the transaction and stores nothing.
_get_user_status_NoStore(table, c, user_id) ==
    IF user_id \in DOMAIN c
    THEN [cache |-> c, ret |-> c[user_id], db_calls |-> << >>]
    ELSE [cache |-> c,
          ret |-> _get_user_status_txn(table, user_id),
          db_calls |-> <<"tchap_red_list_get_status">>]

\* @cached(): a hit returns the stored value without any database call, a miss
\* runs the transaction and stores what it returned.
_get_user_status(table, c, user_id) ==
    IF user_id \in DOMAIN c
    THEN [cache |-> c, ret |-> c[user_id], db_calls |-> << >>]
    ELSE [cache |-> Populate(c, user_id, _get_user_status_txn(table, user_id)),
          ret |-> _get_user_status_txn(table, user_id),
          db_calls |-> <<"tchap_red_list_get_status">>]

\* Variant: the insert without the cache invalidation.
_add_to_red_list_txn_NoInvalidate(table, c, user_id, because_expired) ==
    IF RowsOf(table, user_id) # {}
    THEN [table |-> table, cache |-> c, ok |-> FALSE]
    ELSE [table |-> table \cup {Row(user_id, because_expired)},
          cache |-> c, ok |-> TRUE]

\* Variant: the insert replaces the row of a user who already has one.
_add_to_red_list_txn_Upsert(table, c, user_id, because_expired) ==
    [table |-> (table \ RowsOf(table, user_id)) \cup {Row(user_id, because_expired)},
     cache |-> Invalidate(c, user_id), ok |-> TRUE]

\* INSERT INTO tchap_red_list: user_id is the primary key, so the statement
\* raises when the user already has a row, before the invalidation runs.
_add_to_red_list_txn(table, c, user_id, because_expired) ==
    IF RowsOf(table, user_id) # {}
    THEN [table |-> table, cache |-> c, ok |-> FALSE]
    ELSE [table |-> table \cup {Row(user_id, because_expired)},
          cache |-> Invalidate(c, user_id), ok |-> TRUE]

\* simple_update_one_txn raises when no row matches the key.
update_added_after_expiring_txn(table, c, user_id) ==
    IF RowsOf(table, user_id) = {}
    THEN [table |-> table, cache |-> c, ok |-> FALSE]
    ELSE [table |-> (table \ RowsOf(table, user_id)) \cup {Row(user_id, FALSE)},
          cache |-> Invalidate(c, user_id), ok |-> TRUE]

\* Variant: the DELETE matches no row.
_remove_from_red_list_txn_NoDelete(table, c, user_id) ==
    [table |-> table, cache |-> Invalidate(c, user_id), ok |-> TRUE]

\* DELETE FROM tchap_red_list WHERE user_id = ?
_remove_from_red_list_txn(table, c, user_id) ==
    [table |-> table \ RowsOf(table, user_id),
     cache |-> Invalidate(c, user_id), ok |-> TRUE]

(* ------------------------ discovery room mirror ------------------------ *)

\* The update_room_membership calls one invocation issues (none without a
\* discovery room).
_maybe_change_membership_in_discovery_room(cfg, user_id, membership) ==
    IF cfg.discovery_room = None
    THEN << >>
    ELSE <<[sender |-> user_id, target |-> user_id,
            room_id |-> cfg.discovery_room, new_membership |-> membership]>>

\* for user in users: await self._maybe_change_membership_in_discovery_room(...)
RECURSIVE MembershipLoop(_, _, _)
MembershipLoop(cfg, users, membership) ==
    IF users = << >>
    THEN << >>
    ELSE _maybe_change_membership_in_discovery_room(cfg, Head(users), membership)
         \o MembershipLoop(cfg, Tail(users), membership)

(* --------------------------- single-user writes ------------------------ *)

\* Variant: the membership call is issued whether the insert committed or not.
_add_to_red_list_CallAlways(cfg, table, c, user_id, because_expired) ==
    LET t == run_db_interaction(table,
                 _add_to_red_list_txn(table, c, user_id, because_expired))
    IN [table |-> t.table, cache |-> t.cache, ok |-> t.ok,
        db_calls |-> <<"tchap_red_list_add">>,
        calls |-> _maybe_change_membership_in_discovery_room(cfg, user_id, "leave")]

_add_to_red_list(cfg, table, c, user_id, because_expired) ==
    LET t == run_db_interaction(table,
                 _add_to_red_list_txn(table, c, user_id, because_expired))
    IN [table |-> t.table, cache |-> t.cache, ok |-> t.ok,
        db_calls |-> <<"tchap_red_list_add">>,
        calls |-> IF t.ok
                  THEN _maybe_change_membership_in_discovery_room(cfg, user_id, "leave")
                  ELSE << >>]

_update_added_after_expiring(cfg, table, c, user_id) ==
    LET t == run_db_interaction(table,
                 update_added_after_expiring_txn(table, c, user_id))
    IN [table |-> t.table, cache |-> t.cache, ok |-> t.ok,
        db_calls |-> <<"tchap_red_list_update_added_after_expiring">>,
        calls |-> << >>]

\* Variant: the removal makes the user leave the discovery room.
_remove_from_red_list_Leave(cfg, table, c, user_id) ==
    LET t == run_db_interaction(table, _remove_from_red_list_txn(table, c, user_id))
    IN [table |-> t.table, cache |-> t.cache, ok |-> t.ok,
        db_calls |-> <<"tchap_red_list_remove">>,
        calls |-> IF t.ok
                  THEN _maybe_change_membership_in_discovery_room(cfg, user_id, "leave")
                  ELSE << >>]

_remove_from_red_list(cfg, table, c, user_id) ==
    LET t == run_db_interaction(table, _remove_from_red_list_txn(table, c, user_id))
    IN [table |-> t.table, cache |-> t.cache, ok |-> t.ok,
        db_calls |-> <<"tchap_red_list_remove">>,
        calls |-> IF t.ok
                  THEN _maybe_change_membership_in_discovery_room(cfg, user_id, "join")
                  ELSE << >>]

(* ------------------------- account data callback ----------------------- *)

\* content.get("hide_profile"): the value, None when the key is missing.
ContentGet(content) ==
    IF content.hide_profile = "missing" THEN "None" ELSE content.hide_profile

\* Variant: only false is falsy.
Bool_NoneIsTrue(v) == v # "false"

\* python's bool() on the JSON values of the model.
Bool(v) == v = "true"

\* Variant: the because_expired entry is only updated when the user asks to
\* be hidden.
UpdateWrite_ReAddOnly(cfg, table, c, user_id, desired_status, because_expired) ==
    IF because_expired /\ desired_status
    THEN _update_added_after_expiring(cfg, table, c, user_id)
    ELSE IF desired_status
         THEN _add_to_red_list(cfg, table, c, user_id, FALSE)
         ELSE _remove_from_red_list(cfg, table, c, user_id)

\* The write update_red_list_status chooses from the status it read.
UpdateWrite(cfg, table, c, user_id, desired_status, because_expired) ==
    IF because_expired
    THEN _update_added_after_expiring(cfg, table, c, user_id)
    ELSE IF desired_status
         THEN _add_to_red_list(cfg, table, c, user_id, FALSE)
         ELSE _remove_from_red_list(cfg, table, c, user_id)

\* Variant: every account data type is handled.
update_red_list_status_AnyType(cfg, table, c, user_id, account_data_type, content) ==
    LET desired_status == Bool(ContentGet(content))
        s == _get_user_status(table, c, user_id)
        current_status == s.ret[1]
        because_expired == s.ret[2]
    IN IF current_status = desired_status /\ because_expired = FALSE
       THEN [table |-> table, cache |-> s.cache, ok |-> TRUE,
             db_calls |-> s.db_calls, calls |-> << >>,
             read |-> TRUE, status |-> s.ret]
       ELSE LET w == UpdateWrite(cfg, table, s.cache, user_id,
                                 desired_status, because_expired)
            IN [table |-> w.table, cache |-> w.cache, ok |-> w.ok,
                db_calls |-> s.db_calls \o w.db_calls, calls |-> w.calls,
                read |-> TRUE, status |-> s.ret]

update_red_list_status(cfg, table, c, user_id, account_data_type, content) ==
    IF account_data_type # ACCOUNT_DATA_TYPE
    THEN [table |-> table, cache |-> c, ok |-> TRUE, db_calls |-> << >>,
          calls |-> << >>, read |-> FALSE, status |-> <<FALSE, FALSE>>]
    ELSE LET desired_status == Bool(ContentGet(content))
             s == _get_user_status(table, c, user_id)
             current_status == s.ret[1]
             because_expired == s.ret[2]
         IN IF current_status = desired_status /\ because_expired = FALSE
            THEN [table |-> table, cache |-> s.cache, ok |-> TRUE,
                  db_calls |-> s.db_calls, calls |-> << >>,
                  read |-> TRUE, status |-> s.ret]
            ELSE LET w == UpdateWrite(cfg, table, s.cache, user_id,
                                      desired_status, because_expired)
                 IN [table |-> w.table, cache |-> w.cache, ok |-> w.ok,
                     db_calls |-> s.db_calls \o w.db_calls, calls |-> w.calls,
                     read |-> TRUE, status |-> s.ret]

(* ------------------------ directory search callback -------------------- *)

\* Variant: the answer is the because_expired element of the status.
check_user_in_red_list_Reason(table, c, user_profile) ==
    LET s == _get_user_status(table, c, user_profile.user_id)
    IN [cache |-> s.cache, ret |-> s.ret[2], status |-> s.ret,
        db_calls |-> s.db_calls]

check_user_in_red_list(table, c, user_profile) ==
    LET s == _get_user_status(table, c, user_profile.user_id)
    IN [cache |-> s.cache, ret |-> s.ret[1], status |-> s.ret,
        db_calls |-> s.db_calls]

(* ------------------------------- sweeps -------------------------------- *)

\* Variant: WHERE expiration_ts_ms < ?
ExpiredUsers_Strict(validity, now) ==
    {r.user_id : r \in {x \in validity : x.expiration_ts_ms < now}}

\* SELECT user_id FROM email_account_validity WHERE expiration_ts_ms <= ?
ExpiredUsers(validity, now) ==
    {r.user_id : r \in {x \in validity : x.expiration_ts_ms <= now}}

\* for user in users_to_add: INSERT ...; invalidate.  The first INSERT that
\* raises ends the loop.
RECURSIVE InsertLoop(_, _, _)
InsertLoop(table, c, users) ==
    IF users = << >>
    THEN [table |-> table, cache |-> c, ok |-> TRUE]
    ELSE LET t == _add_to_red_list_txn(table, c, Head(users), TRUE)
         IN IF t.ok THEN InsertLoop(t.table, t.cache, Tail(users)) ELSE t

\* for user in renewed_users: invalidate
RECURSIVE InvalidateLoop(_, _)
InvalidateLoop(c, users) ==
    IF users = << >> THEN c ELSE InvalidateLoop(Invalidate(c, Head(users)), Tail(users))

\* Variant: every expired user is inserted, in the red list or not.
add_expired_users_txn_NoFilter(table, validity, c, now, order) ==
    LET expired_users == FilterSeq(order, ExpiredUsers(validity, now))
        t == InsertLoop(table, c, expired_users)
    IN [table |-> t.table, cache |-> t.cache, ok |-> t.ok, ret |-> expired_users]

\* order: the order in which the database returns rows, as an order of the
\* user ids.
add_expired_users_txn(table, validity, c, now, order) ==
    LET expired_users == FilterSeq(order, ExpiredUsers(validity, now))
        users_in_red_list == UserIds(table) \cap SeqToSet(expired_users)
        users_to_add == FilterSeq(expired_users, Users \ users_in_red_list)
        t == InsertLoop(table, c, users_to_add)
    IN [table |-> t.table, cache |-> t.cache, ok |-> t.ok, ret |-> users_to_add]

_add_expired_users(cfg, table, validity, c, now, order) ==
    LET t == run_db_interaction(table,
                 add_expired_users_txn(table, validity, c, now, order))
    IN [table |-> t.table, cache |-> t.cache, ok |-> t.ok,
        ret |-> IF t.ok THEN t.ret ELSE << >>,
        db_calls |-> <<"tchap_red_list_hide_expired_users">>,
        calls |-> IF t.ok THEN MembershipLoop(cfg, t.ret, "leave") ELSE << >>]

\* add_expired_users_txn when the database raises after k of the inserts
\* (k = all of them: at the commit).
add_expired_users_txn_raises(table, validity, c, now, order, k) ==
    LET users_to_add == add_expired_users_txn(table, validity, c, now, order).ret
        t == InsertLoop(table, c, SubSeq(users_to_add, 1, k))
    IN [table |-> t.table, cache |-> t.cache, ok |-> FALSE, ret |-> users_to_add]

_add_expired_users_raises(cfg, table, validity, c, now, order, k) ==
    LET t == run_db_interaction(table,
                 add_expired_users_txn_raises(table, validity, c, now, order, k))
    IN [table |-> t.table, cache |-> t.cache, ok |-> t.ok,
        ret |-> IF t.ok THEN t.ret ELSE << >>,
        db_calls |-> <<"tchap_red_list_hide_expired_users">>,
        calls |-> IF t.ok THEN MembershipLoop(cfg, t.ret, "leave") ELSE << >>]

\* Variant: the red list is read without the because_expired filter.
RenewedUsers_AllEntries(table, validity, now) ==
    LET rows == {v \in validity : v.user_id \in UserIds(table)}
    IN {v.user_id : v \in {x \in rows : x.expiration_ts_ms > now}}

\* Variant: if row["expiration_ts_ms"] >= now_ms
RenewedUsers_NotStrict(table, validity, now) ==
    LET previously_expired_users ==
            {r.user_id : r \in {x \in table : x.because_expired = TRUE}}
        rows == {v \in validity : v.user_id \in previously_expired_users}
    IN {v.user_id : v \in {x \in rows : x.expiration_ts_ms >= now}}

\* if row["expiration_ts_ms"] > now_ms, over the validity rows of the users
\* the red list holds with because_expired = True.
RenewedUsers(table, validity, now) ==
    LET previously_expired_users ==
            {r.user_id : r \in {x \in table : x.because_expired = TRUE}}
        rows == {v \in validity : v.user_id \in previously_expired_users}
    IN {v.user_id : v \in {x \in rows : x.expiration_ts_ms > now}}

\* Variant: the renewed users are selected and returned, never deleted.
remove_renewed_users_txn_SelectOnly(table, validity, c, now, order) ==
    LET renewed_users == FilterSeq(order, RenewedUsers(table, validity, now))
    IN [table |-> table, cache |-> InvalidateLoop(c, renewed_users),
        ok |-> TRUE, ret |-> renewed_users]

remove_renewed_users_txn(table, validity, c, now, order) ==
    LET renewed_users == FilterSeq(order, RenewedUsers(table, validity, now))
    IN [table |-> {r \in table : r.user_id \notin SeqToSet(renewed_users)},
        cache |-> InvalidateLoop(c, renewed_users),
        ok |-> TRUE, ret |-> renewed_users]

_remove_renewed_users(cfg, table, validity, c, now, order) ==
    LET t == run_db_interaction(table,
                 remove_renewed_users_txn(table, validity, c, now, order))
    IN [table |-> t.table, cache |-> t.cache, ok |-> t.ok,
        ret |-> IF t.ok THEN t.ret ELSE << >>,
        db_calls |-> <<"tchap_red_list_remove_renewed_users">>,
        calls |-> IF t.ok THEN MembershipLoop(cfg, t.ret, "join") ELSE << >>]

\* remove_renewed_users_txn when the database raises before the delete
\* (k = 0) or after it and the invalidations, at the commit (k = 1).
remove_renewed_users_txn_raises(table, validity, c, now, order, k) ==
    LET t == remove_renewed_users_txn(table, validity, c, now, order)
    IN IF k = 0
       THEN [table |-> table, cache |-> c, ok |-> FALSE, ret |-> t.ret]
       ELSE [t EXCEPT !.ok = FALSE]

_remove_renewed_users_raises(cfg, table, validity, c, now, order, k) ==
    LET t == run_db_interaction(table,
                 remove_renewed_users_txn_raises(table, validity, c, now, order, k))
    IN [table |-> t.table, cache |-> t.cache, ok |-> t.ok,
        ret |-> IF t.ok THEN t.ret ELSE << >>,
        db_calls |-> <<"tchap_red_list_remove_renewed_users">>,
        calls |-> IF t.ok THEN MembershipLoop(cfg, t.ret, "join") ELSE << >>]

(* ------------------------------ history -------------------------------- *)

\* What an operation leaves in `last`; the fields an operation does not use
\* keep these values.
NoOp ==
    [op |-> "none", user_id |-> NoUser, account_data_type |-> "",
     desired |-> FALSE, pre |-> {}, read |-> FALSE,
     status |-> <<FALSE, FALSE>>, ok |-> TRUE,
     db_calls |-> << >>, calls |-> << >>, ret |-> << >>, now_ms |-> 0,
     again |-> FALSE, same_expired |-> FALSE,
     hide_profile |-> "", result |-> FALSE, was_fresh |-> FALSE,
     after_failure |-> FALSE, applied |-> 0, raised |-> ""]

\* The operation before this one was the same call with the same arguments
\* (and the validity table has not changed in between: SetExpiration is
\* recorded as an operation).
Again(op, user_id, account_data_type, desired) ==
    /\ last.op = op
    /\ last.user_id = user_id
    /\ last.account_data_type = account_data_type
    /\ last.desired = desired

(* ------------------------------- state --------------------------------- *)

Configs ==
    [discovery_room : {None, DISCOVERY_ROOM}, use_email_account_validity : BOOLEAN]

Contents == [hide_profile : JsonValues]

\* The validity tables with at most one row per user.
ValidityTables ==
    UNION {{{ValidityRow(u, f[u]) : u \in d} : f \in [d -> Timestamps]} : d \in SUBSET Users}

\* What a coroutine holds while it issues its membership calls: the calls
\* still to issue, whether its transaction committed and the users whose
\* cache entry the transaction invalidated.
Pending(calls, committed, invalidated) ==
    [calls |-> calls, committed |-> committed, invalidated |-> invalidated]

NoPending == Pending(<< >>, FALSE, {})

\* Neither sweep is running.
IdleLoops ==
    [k \in {"_add_expired_users", "_remove_renewed_users"} |-> NoPending]

\* The tables of a database in which _setup_db has succeeded.
TablesOf(cfg) ==
    {"tchap_red_list"} \cup
        (IF cfg.use_email_account_validity THEN {"email_account_validity"} ELSE {})

\* The users whose entry differs between two states of the red list table.
Written(pre, post) == {u \in Users : RowsOf(pre, u) # RowsOf(post, u)}

Init ==
    /\ config \in Configs
    /\ tchap_red_list = {}
    /\ email_account_validity \in
           (IF config.use_email_account_validity THEN ValidityTables ELSE {{}})
    /\ cache = << >>
    /\ now_ms = 0
    /\ last = NoOp
    /\ fresh = {}
    /\ setup = "done"
    /\ tables = TablesOf(config)
    /\ tasks = EmptyBag
    /\ loops = IdleLoops
    /\ failed = {}

\* The host delivers an account data change to on_account_data_updated.
UpdateRedListStatus(user_id, account_data_type, content) ==
    LET r == update_red_list_status(config, tchap_red_list, cache, user_id,
                                    account_data_type, content)
    IN /\ tchap_red_list' = r.table
       /\ cache' = r.cache
       /\ last' = [NoOp EXCEPT !.op = "update_red_list_status",
                               !.user_id = user_id,
                               !.account_data_type = account_data_type,
                               !.desired = Bool(ContentGet(content)),
                               !.pre = tchap_red_list,
                               !.read = r.read, !.status = r.status,
                               !.ok = r.ok, !.db_calls = r.db_calls,
                               !.calls = r.calls,
                               !.again = Again("update_red_list_status", user_id,
                                               account_data_type,
                                               Bool(ContentGet(content))),
                               !.hide_profile = content.hide_profile,
                               !.was_fresh = user_id \in fresh]
       /\ fresh' = (IF r.read THEN fresh \cup {user_id} ELSE fresh)
                        \ Written(tchap_red_list, r.table)
       /\ UNCHANGED <<config, email_account_validity, now_ms, lifecycle, inflight>>

\* The host asks check_username_for_spam about a user profile.
CheckUserInRedList(user_id) ==
    LET r == check_user_in_red_list(tchap_red_list, cache, [user_id |-> user_id])
    IN /\ cache' = r.cache
       /\ last' = [NoOp EXCEPT !.op = "check_user_in_red_list",
                               !.user_id = user_id,
                               !.pre = tchap_red_list,
                               !.read = TRUE, !.status = r.status,
                               !.db_calls = r.db_calls,
                               !.again = Again("check_user_in_red_list", user_id,
                                               "", FALSE),
                               !.result = r.ret,
                               !.was_fresh = user_id \in fresh]
       /\ fresh' = fresh \cup {user_id}
       /\ UNCHANGED <<config, tchap_red_list, email_account_validity, now_ms,
                      lifecycle, inflight>>

\* Variant: the expiry sweep is scheduled whatever the configuration.
AddExpiredUsers_Unscheduled(order) ==
    /\ LET r == _add_expired_users(config, tchap_red_list, email_account_validity,
                                   cache, now_ms, order)
       IN /\ tchap_red_list' = r.table
          /\ cache' = r.cache
          /\ last' = [NoOp EXCEPT !.op = "_add_expired_users",
                                  !.pre = tchap_red_list,
                                  !.ok = r.ok, !.db_calls = r.db_calls,
                                  !.calls = r.calls, !.ret = r.ret,
                                  !.now_ms = now_ms]
          /\ fresh' = fresh \ Written(tchap_red_list, r.table)
    /\ UNCHANGED <<config, email_account_validity, now_ms, lifecycle, inflight>>

\* looping_background_call(self._add_expired_users, ...), scheduled only with
\* use_email_account_validity.
AddExpiredUsers(order) ==
    /\ config.use_email_account_validity
    /\ LET r == _add_expired_users(config, tchap_red_list, email_account_validity,
                                   cache, now_ms, order)
       IN /\ tchap_red_list' = r.table
          /\ cache' = r.cache
          /\ last' = [NoOp EXCEPT !.op = "_add_expired_users",
                                  !.pre = tchap_red_list,
                                  !.ok = r.ok, !.db_calls = r.db_calls,
                                  !.calls = r.calls, !.ret = r.ret,
                                  !.now_ms = now_ms,
                                  !.again = Again("_add_expired_users", NoUser, "", FALSE),
                                  !.after_failure =
                                      Again("_add_expired_users", NoUser, "", FALSE) /\ ~last.ok,
                                  !.applied =
                                      (IF Again("_add_expired_users", NoUser, "", FALSE) /\ ~last.ok
                                       THEN last.applied ELSE 0),
                                  !.same_expired =
                                      /\ Again("_add_expired_users", NoUser, "", FALSE)
                                      /\ ExpiredUsers(email_account_validity, last.now_ms)
                                             = ExpiredUsers(email_account_validity, now_ms)]
          /\ fresh' = fresh \ Written(tchap_red_list, r.table)
    /\ UNCHANGED <<config, email_account_validity, now_ms, lifecycle, inflight>>

\* looping_background_call(self._remove_renewed_users, ...)
RemoveRenewedUsers(order) ==
    /\ config.use_email_account_validity
    /\ LET r == _remove_renewed_users(config, tchap_red_list, email_account_validity,
                                      cache, now_ms, order)
       IN /\ tchap_red_list' = r.table
          /\ cache' = r.cache
          /\ last' = [NoOp EXCEPT !.op = "_remove_renewed_users",
                                  !.pre = tchap_red_list,
                                  !.ok = r.ok, !.db_calls = r.db_calls,
                                  !.calls = r.calls, !.ret = r.ret,
                                  !.now_ms = now_ms,
                                  !.again = Again("_remove_renewed_users", NoUser, "", FALSE),
                                  !.after_failure =
                                      Again("_remove_renewed_users", NoUser, "", FALSE) /\ ~last.ok,
                                  !.applied =
                                      (IF Again("_remove_renewed_users", NoUser, "", FALSE) /\ ~last.ok
                                       THEN last.applied ELSE 0),
                                  !.same_expired =
                                      /\ Again("_remove_renewed_users", NoUser, "", FALSE)
                                      /\ ExpiredUsers(email_account_validity, last.now_ms)
                                             = ExpiredUsers(email_account_validity, now_ms)]
          /\ fresh' = fresh \ Written(tchap_red_list, r.table)
    /\ UNCHANGED <<config, email_account_validity, now_ms, lifecycle, inflight>>

\* The wall clock advances.
Tick ==
    /\ config.use_email_account_validity
    /\ now_ms < MaxTime
    /\ now_ms' = now_ms + 1
    /\ UNCHANGED <<config, tchap_red_list, email_account_validity, cache, last,
                   fresh, lifecycle, inflight>>

\* The account validity module sets a user's expiration timestamp (a renewal,
\* or a new account).
SetExpiration(user_id, ts) ==
    /\ config.use_email_account_validity
    /\ ValidityRow(user_id, ts) \notin email_account_validity
    /\ email_account_validity' =
           (email_account_validity \ RowsOf(email_account_validity, user_id))
               \cup {ValidityRow(user_id, ts)}
    /\ last' = [NoOp EXCEPT !.op = "set_expiration", !.user_id = user_id,
                            !.pre = tchap_red_list]
    /\ UNCHANGED <<config, tchap_red_list, cache, now_ms, fresh, lifecycle, inflight>>

Next ==
    \/ \E u \in Users, t \in {ACCOUNT_DATA_TYPE, OTHER_DATA_TYPE}, c \in Contents :
           UpdateRedListStatus(u, t, c)
    \/ \E u \in Users : CheckUserInRedList(u)
    \/ \E order \in Orders(Users) : AddExpiredUsers(order)
    \/ \E order \in Orders(Users) : RemoveRenewedUsers(order)
    \/ Tick
    \/ \E u \in Users, ts \in Timestamps : SetExpiration(u, ts)

Spec == Init /\ [][Next]_vars

(* --------------------- sweeps whose transaction fails ------------------ *)

\* A run of the expiry sweep in which the database raises after k inserts.
AddExpiredUsersRaises(order, k) ==
    /\ config.use_email_account_validity
    /\ k <= Len(add_expired_users_txn(tchap_red_list, email_account_validity,
                                      cache, now_ms, order).ret)
    /\ LET r == _add_expired_users_raises(config, tchap_red_list,
                                          email_account_validity, cache, now_ms,
                                          order, k)
       IN /\ tchap_red_list' = r.table
          /\ cache' = r.cache
          /\ last' = [NoOp EXCEPT !.op = "_add_expired_users",
                                  !.pre = tchap_red_list,
                                  !.ok = r.ok, !.db_calls = r.db_calls,
                                  !.calls = r.calls, !.ret = r.ret,
                                  !.now_ms = now_ms, !.applied = k,
                                  !.again = Again("_add_expired_users", NoUser, "", FALSE)]
          /\ fresh' = fresh \ Written(tchap_red_list, r.table)
    /\ UNCHANGED <<config, email_account_validity, now_ms, lifecycle, inflight>>

\* A run of the renewal sweep in which the database raises before (k = 0) or
\* after (k = 1) the delete.
RemoveRenewedUsersRaises(order, k) ==
    /\ config.use_email_account_validity
    /\ LET r == _remove_renewed_users_raises(config, tchap_red_list,
                                             email_account_validity, cache, now_ms,
                                             order, k)
       IN /\ tchap_red_list' = r.table
          /\ cache' = r.cache
          /\ last' = [NoOp EXCEPT !.op = "_remove_renewed_users",
                                  !.pre = tchap_red_list,
                                  !.ok = r.ok, !.db_calls = r.db_calls,
                                  !.calls = r.calls, !.ret = r.ret,
                                  !.now_ms = now_ms, !.applied = k,
                                  !.again = Again("_remove_renewed_users", NoUser, "", FALSE)]
          /\ fresh' = fresh \ Written(tchap_red_list, r.table)
    /\ UNCHANGED <<config, email_account_validity, now_ms, lifecycle, inflight>>

SweepsNext ==
    \/ \E order \in Orders(Users) : AddExpiredUsers(order)
    \/ \E order \in Orders(Users) : RemoveRenewedUsers(order)
    \/ \E order \in Orders(Users), k \in 0..NumUsers : AddExpiredUsersRaises(order, k)
    \/ \E order \in Orders(Users), k \in {0, 1} : RemoveRenewedUsersRaises(order, k)
    \/ \E u \in Users : CheckUserInRedList(u)
    \/ Tick
    \/ \E u \in Users, ts \in Timestamps : SetExpiration(u, ts)

SpecSweeps == Init /\ [][SweepsNext]_vars

(* ------------------------ the sweeps as looping calls ------------------ *)

\* Everything the sequential module does, and sweep runs that fail.
LiveNext ==
    \/ Next
    \/ \E order \in Orders(Users), k \in 0..NumUsers : AddExpiredUsersRaises(order, k)
    \/ \E order \in Orders(Users), k \in {0, 1} : RemoveRenewedUsersRaises(order, k)

\* looping_background_call runs each sweep again every hour, for ever: a
\* sweep that could change something is eventually run to completion.
SpecLive ==
    /\ Init
    /\ [][LiveNext]_vars
    /\ WF_vars(\E order \in Orders(Users) : AddExpiredUsers(order))
    /\ WF_vars(\E order \in Orders(Users) : RemoveRenewedUsers(order))

(* ------------------- a membership call that raises -------------------- *)

\* Variant: the handler undoes its write when the membership call raises.
update_room_membership_raises_Compensated(table, c, r) ==
    [r EXCEPT !.ok = FALSE, !.table = table, !.cache = c]

\* What a handler that got as far as r leaves when its
\* update_room_membership raises: nothing catches the exception between the
\* await and the caller of update_red_list_status, and nothing is undone.
update_room_membership_raises(table, c, r) == [r EXCEPT !.ok = FALSE]

\* A hide_profile notification whose write commits and whose membership
\* call raises.
UpdateRedListStatusCallRaises(user_id, content) ==
    LET r0 == update_red_list_status(config, tchap_red_list, cache, user_id,
                                     ACCOUNT_DATA_TYPE, content)
        r == update_room_membership_raises(tchap_red_list, cache, r0)
    IN /\ r0.ok
       /\ r0.calls # << >>
       /\ tchap_red_list' = r.table
       /\ cache' = r.cache
       /\ last' = [NoOp EXCEPT !.op = "update_red_list_status",
                               !.user_id = user_id,
                               !.account_data_type = ACCOUNT_DATA_TYPE,
                               !.desired = Bool(ContentGet(content)),
                               !.pre = tchap_red_list,
                               !.read = r.read, !.status = r.status,
                               !.ok = r.ok, !.db_calls = r.db_calls,
                               !.calls = r.calls,
                               !.again = Again("update_red_list_status", user_id,
                                               ACCOUNT_DATA_TYPE,
                                               Bool(ContentGet(content))),
                               !.hide_profile = content.hide_profile,
                               !.was_fresh = user_id \in fresh,
                               !.raised = "update_room_membership"]
       /\ fresh' = (IF r.read THEN fresh \cup {user_id} ELSE fresh)
                        \ Written(tchap_red_list, r.table)
       /\ UNCHANGED <<config, email_account_validity, now_ms, lifecycle, inflight>>

(* ---------------- direct calls of the write operations ----------------- *)

\* A caller awaits _add_to_red_list without reading the status first.
AddToRedList(user_id, because_expired) ==
    LET r == _add_to_red_list(config, tchap_red_list, cache, user_id, because_expired)
    IN /\ tchap_red_list' = r.table
       /\ cache' = r.cache
       /\ last' = [NoOp EXCEPT !.op = "_add_to_red_list",
                               !.user_id = user_id,
                               !.pre = tchap_red_list,
                               !.ok = r.ok, !.db_calls = r.db_calls,
                               !.calls = r.calls]
       /\ fresh' = fresh \ Written(tchap_red_list, r.table)
       /\ UNCHANGED <<config, email_account_validity, now_ms, lifecycle, inflight>>

DirectNext ==
    \/ \E u \in Users, c \in Contents : UpdateRedListStatus(u, ACCOUNT_DATA_TYPE, c)
    \/ \E u \in Users : CheckUserInRedList(u)
    \/ \E u \in Users, because_expired \in BOOLEAN : AddToRedList(u, because_expired)
    \/ \E u \in Users, c \in Contents : UpdateRedListStatusCallRaises(u, c)

SpecDirect == Init /\ [][DirectNext]_vars

(* ------------------------- calls in flight ----------------------------- *)

\* An update_red_list_status coroutine suspended at an await: at the status
\* read before ("get_status") or after ("got_status") the database ran it,
\* at the write ("write"), or at update_room_membership ("membership").
\* store: the cache will keep the status this lookup fetches.
Task(pc, user_id, desired, status, store, pending) ==
    [pc |-> pc, user_id |-> user_id, desired |-> desired, status |-> status,
     store |-> store, pending |-> pending]

OneTask(t) == SetToBag({t})

\* The test of update_red_list_status on the status it read: nothing to do.
NoChange(status, desired_status) ==
    status[1] = desired_status /\ status[2] = FALSE

\* A cache that holds every user: what an operation removes from it is what
\* the operation invalidates.
FullCache == [u \in Users |-> <<FALSE, FALSE>>]

InvalidatedIn(c) == Users \ DOMAIN c

\* Variant: a lookup in flight stores its result whatever was invalidated
\* meanwhile.
DropLookups_KeepStoring(ts, users) == ts

\* invalidate((user_id,)) on the @cached() store while a lookup of user_id is
\* in flight: the lookup still completes for its caller, its result is not
\* stored.
RECURSIVE DropLookups(_, _)
DropLookups(ts, users) ==
    IF ts = EmptyBag
    THEN EmptyBag
    ELSE LET t == CHOOSE x \in DOMAIN ts : TRUE
             rest == [x \in (DOMAIN ts) \ {t} |-> ts[x]]
             dropped == IF t.user_id \in users /\ t.pc \in {"get_status", "got_status"}
                        THEN [t EXCEPT !.store = FALSE]
                        ELSE t
         IN DropLookups(rest, users) (+) [x \in {dropped} |-> ts[t]]

\* The state no call in flight changes.
ConcFrame == UNCHANGED <<config, now_ms, fresh, lifecycle>>

\* update_red_list_status up to its first suspension: a cache hit goes on to
\* the test and, if a write is due, suspends at the write; a miss suspends
\* at the status read.
StartUpdate(user_id, content) ==
    LET desired_status == Bool(ContentGet(content))
    IN /\ BagCardinality(tasks) < NumTasks
       /\ tasks' =
              (IF user_id \notin DOMAIN cache
               THEN tasks (+) OneTask(Task("get_status", user_id, desired_status,
                                           <<FALSE, FALSE>>, TRUE, NoPending))
               ELSE IF NoChange(cache[user_id], desired_status)
                    THEN tasks
                    ELSE tasks (+) OneTask(Task("write", user_id, desired_status,
                                                cache[user_id], FALSE, NoPending)))
       /\ UNCHANGED <<tchap_red_list, email_account_validity, cache, last,
                      loops, failed>>
       /\ ConcFrame

\* The database runs the status read of a suspended lookup.
DbGetStatus(t) ==
    /\ t.pc = "get_status"
    /\ tasks' = (tasks (-) OneTask(t)) (+)
                    OneTask([t EXCEPT !.pc = "got_status",
                                      !.status = _get_user_status_txn(tchap_red_list,
                                                                      t.user_id)])
    /\ UNCHANGED <<tchap_red_list, email_account_validity, cache, last, loops, failed>>
    /\ ConcFrame

\* The lookup returns to update_red_list_status: the cache stores the status
\* unless the key was invalidated meanwhile, and the coroutine runs up to the
\* write.
ResumeRead(t) ==
    /\ t.pc = "got_status"
    /\ cache' = (IF t.store THEN Populate(cache, t.user_id, t.status) ELSE cache)
    /\ tasks' =
           (IF NoChange(t.status, t.desired)
            THEN tasks (-) OneTask(t)
            ELSE (tasks (-) OneTask(t)) (+)
                     OneTask(Task("write", t.user_id, t.desired, t.status,
                                  FALSE, NoPending)))
    /\ UNCHANGED <<tchap_red_list, email_account_validity, last, loops, failed>>
    /\ ConcFrame

\* The database runs the write the coroutine chose from the status it read,
\* on the table as it is now.
DbWrite(t) ==
    /\ t.pc = "write"
    /\ LET w == UpdateWrite(config, tchap_red_list, cache, t.user_id,
                            t.desired, t.status[2])
           invalidated ==
               InvalidatedIn(UpdateWrite(config, tchap_red_list, FullCache, t.user_id,
                                         t.desired, t.status[2]).cache)
           others == DropLookups(tasks (-) OneTask(t), invalidated)
       IN /\ tchap_red_list' = w.table
          /\ cache' = w.cache
          /\ failed' = (IF w.ok THEN failed ELSE failed \cup {w.db_calls[1]})
          /\ tasks' =
                 (IF w.calls = << >>
                  THEN others
                  ELSE others (+)
                           OneTask(Task("membership", t.user_id, FALSE, <<FALSE, FALSE>>,
                                        FALSE, Pending(w.calls, w.ok, invalidated))))
    /\ UNCHANGED <<email_account_validity, last, loops>>
    /\ ConcFrame

\* What update_room_membership leaves on record: the call, and whether the
\* transaction of the caller had committed and had invalidated the target.
Issued(p) ==
    [NoOp EXCEPT !.op = "update_room_membership",
                 !.user_id = Head(p.calls).target,
                 !.calls = <<Head(p.calls)>>,
                 !.ok = p.committed /\ Head(p.calls).target \in p.invalidated]

\* What is left to issue after the first call.
After(p) ==
    IF Len(p.calls) = 1 THEN NoPending ELSE [p EXCEPT !.calls = Tail(p.calls)]

\* update_red_list_status issues its membership call and returns.
TaskCall(t) ==
    /\ t.pc = "membership"
    /\ last' = Issued(t.pending)
    /\ tasks' = tasks (-) OneTask(t)
    /\ UNCHANGED <<tchap_red_list, email_account_validity, cache, loops, failed>>
    /\ ConcFrame

\* A sweep fires (not while its previous run is still issuing calls) and the
\* database runs its transaction.
SweepTxn(kind, order) ==
    /\ config.use_email_account_validity
    /\ loops[kind] = NoPending
    /\ LET r == IF kind = "_add_expired_users"
                THEN _add_expired_users(config, tchap_red_list,
                                        email_account_validity, cache, now_ms, order)
                ELSE _remove_renewed_users(config, tchap_red_list,
                                           email_account_validity, cache, now_ms, order)
           invalidated ==
               InvalidatedIn(
                   (IF kind = "_add_expired_users"
                    THEN _add_expired_users(config, tchap_red_list,
                                            email_account_validity, FullCache, now_ms, order)
                    ELSE _remove_renewed_users(config, tchap_red_list,
                                               email_account_validity, FullCache, now_ms,
                                               order)).cache)
       IN /\ tchap_red_list' = r.table
          /\ cache' = r.cache
          /\ failed' = (IF r.ok THEN failed ELSE failed \cup {r.db_calls[1]})
          /\ tasks' = DropLookups(tasks, invalidated)
          /\ loops' = [loops EXCEPT ![kind] =
                           IF r.calls = << >> THEN NoPending
                           ELSE Pending(r.calls, r.ok, invalidated)]
    /\ UNCHANGED <<email_account_validity, last>>
    /\ ConcFrame

\* A sweep issues the next membership call of its loop.
SweepCall(kind) ==
    /\ loops[kind] # NoPending
    /\ last' = Issued(loops[kind])
    /\ loops' = [loops EXCEPT ![kind] = After(loops[kind])]
    /\ UNCHANGED <<tchap_red_list, email_account_validity, cache, tasks, failed>>
    /\ ConcFrame

\* The account validity module sets a user's expiration timestamp while
\* calls are in flight.
ValidityChanges(user_id, ts) ==
    /\ config.use_email_account_validity
    /\ ValidityRow(user_id, ts) \notin email_account_validity
    /\ email_account_validity' =
           (email_account_validity \ RowsOf(email_account_validity, user_id))
               \cup {ValidityRow(user_id, ts)}
    /\ UNCHANGED <<tchap_red_list, cache, last, inflight>>
    /\ ConcFrame

ConcNext ==
    \/ \E u \in Users, c \in Contents : StartUpdate(u, c)
    \/ \E t \in BagToSet(tasks) : DbGetStatus(t)
    \/ \E t \in BagToSet(tasks) : ResumeRead(t)
    \/ \E t \in BagToSet(tasks) : DbWrite(t)
    \/ \E t \in BagToSet(tasks) : TaskCall(t)
    \/ \E kind \in DOMAIN IdleLoops, order \in Orders(Users) : SweepTxn(kind, order)
    \/ \E kind \in DOMAIN IdleLoops : SweepCall(kind)
    \/ \E u \in Users, ts \in {now_ms, now_ms + 1} : ValidityChanges(u, ts)

SpecConc == Init /\ [][ConcNext]_vars

(* ------------------------------ start-up ------------------------------- *)

\* setup_db_txn: CREATE TABLE IF NOT EXISTS tchap_red_list, then, with
\* use_email_account_validity, a SELECT on email_account_validity, which
\* raises when that table does not exist.
setup_db_txn(cfg, tbls) ==
    [tables |-> tbls \cup {"tchap_red_list"},
     ok |-> ~(cfg.use_email_account_validity /\ "email_account_validity" \notin tbls)]

\* The state RedListManager.__init__ leaves: the callbacks registered, the
\* sweeps scheduled, _setup_db started in the background and not yet run.
\* The database may hold either table from before.
StartInit ==
    /\ config \in Configs
    /\ tables \in SUBSET {"tchap_red_list", "email_account_validity"}
    /\ setup = "pending"
    /\ tchap_red_list = {}
    /\ email_account_validity \in
           (IF "email_account_validity" \in tables THEN ValidityTables ELSE {{}})
    /\ cache = << >>
    /\ now_ms = 0
    /\ last = NoOp
    /\ fresh = {}
    /\ tasks = EmptyBag
    /\ loops = IdleLoops
    /\ failed = {}

\* The background call of _setup_db completes.  When the transaction raises,
\* whether the CREATE TABLE is rolled back with it depends on the database,
\* and the error ends in the background call: nothing is unregistered.
SetupDb ==
    /\ setup = "pending"
    /\ LET r == setup_db_txn(config, tables)
       IN /\ setup' = (IF r.ok THEN "done" ELSE "failed")
          /\ tables' \in (IF r.ok THEN {r.tables} ELSE {tables, r.tables})
          /\ last' = [NoOp EXCEPT !.op = "_setup_db", !.ok = r.ok,
                                  !.pre = tchap_red_list,
                                  !.db_calls = <<"tchap_red_list_setup_db">>]
    /\ UNCHANGED <<config, tchap_red_list, email_account_validity, cache, now_ms,
                   fresh, inflight>>

\* A callback whose first database call reads a table that does not exist:
\* the call raises and changes nothing.
CallbackRaises(op, user_id) ==
    /\ "tchap_red_list" \notin tables
    /\ last' = [NoOp EXCEPT !.op = op, !.user_id = user_id, !.ok = FALSE,
                            !.account_data_type =
                                (IF op = "update_red_list_status"
                                 THEN ACCOUNT_DATA_TYPE ELSE ""),
                            !.pre = tchap_red_list]
    /\ UNCHANGED <<config, tchap_red_list, email_account_validity, cache, now_ms,
                   fresh, lifecycle, inflight>>

\* A sweep whose transaction reads a table that does not exist.
SweepRaises(op) ==
    /\ config.use_email_account_validity
    /\ ~({"tchap_red_list", "email_account_validity"} \subseteq tables)
    /\ last' = [NoOp EXCEPT !.op = op, !.ok = FALSE, !.pre = tchap_red_list,
                            !.now_ms = now_ms]
    /\ UNCHANGED <<config, tchap_red_list, email_account_validity, cache, now_ms,
                   fresh, lifecycle, inflight>>

\* The callbacks and the sweeps run whatever _setup_db has done so far.
StartNext ==
    \/ SetupDb
    \/ \E u \in Users, t \in {ACCOUNT_DATA_TYPE, OTHER_DATA_TYPE}, c \in Contents :
           /\ t = ACCOUNT_DATA_TYPE => "tchap_red_list" \in tables
           /\ UpdateRedListStatus(u, t, c)
    \/ \E u \in Users :
           /\ "tchap_red_list" \in tables
           /\ CheckUserInRedList(u)
    \/ \E u \in Users, op \in {"update_red_list_status", "check_user_in_red_list"} :
           CallbackRaises(op, u)
    \/ \E order \in Orders(Users) :
           /\ {"tchap_red_list", "email_account_validity"} \subseteq tables
           /\ AddExpiredUsers(order)
    \/ \E order \in Orders(Users) :
           /\ {"tchap_red_list", "email_account_validity"} \subseteq tables
           /\ RemoveRenewedUsers(order)
    \/ \E op \in {"_add_expired_users", "_remove_renewed_users"} : SweepRaises(op)
    \/ Tick
    \/ \E u \in Users, ts \in Timestamps :
           /\ "email_account_validity" \in tables
           /\ SetExpiration(u, ts)

SpecSetup == StartInit /\ [][StartNext]_vars

(* ----------------------- vocabulary of the claims ---------------------- *)

\* The membership state of a user in a red list table.
StateOf(table, user_id) ==
    IF RowsOf(table, user_id) = {} THEN "VISIBLE"
    ELSE IF \E r \in RowsOf(table, user_id) : r.because_expired THEN "HIDDEN_EXPIRED"
    ELSE "HIDDEN_MANUAL"

\* The rows of the users other than user_id.
Others(table, user_id) == {r \in table : r.user_id # user_id}

IsUpdate ==
    last.op = "update_red_list_status" /\ last.account_data_type = ACCOUNT_DATA_TYPE

\* The operation wrote to the red list table (made a database call other
\* than the status read).
Wrote == \E i \in 1..Len(last.db_calls) : last.db_calls[i] # "tchap_red_list_get_status"

MembershipCall(user_id, membership) ==
    [sender |-> user_id, target |-> user_id, room_id |-> DISCOVERY_ROOM,
     new_membership |-> membership]

\* calls holds exactly one call per user of the set, each with the given
\* membership in the configured room, and nothing else.
OneCallEach(calls, users, membership) ==
    /\ Len(calls) = Cardinality(users)
    /\ \A u \in users : \E i \in 1..Len(calls) : calls[i] = MembershipCall(u, membership)

\* The accounts whose expiration timestamp is at or before time t.
ExpiredAt(t) == {v.user_id : v \in {x \in email_account_validity : x.expiration_ts_ms <= t}}

\* The accounts whose expiration timestamp is strictly after time t.
ValidAt(t) == {v.user_id : v \in {x \in email_account_validity : x.expiration_ts_ms > t}}

(* ------------------------------- claims -------------------------------- *)

\* C1: when update_red_list_status handles a hide_profile update for a user
\* who is HIDDEN_EXPIRED, for either desired value the entry is retained with
\* because_expired = false and no discovery room membership call is issued.
C1_Reclassification ==
    (IsUpdate /\ StateOf(last.pre, last.user_id) = "HIDDEN_EXPIRED") =>
        /\ last.ok
        /\ RowsOf(tchap_red_list, last.user_id) = {Row(last.user_id, FALSE)}
        /\ _get_user_status_txn(tchap_red_list, last.user_id) = <<TRUE, FALSE>>
        /\ last.calls = << >>

C1_Witness ==
    /\ IsUpdate
    /\ StateOf(last.pre, last.user_id) = "HIDDEN_EXPIRED"
    /\ last.desired = FALSE
    /\ config.discovery_room # None
    /\ StateOf(tchap_red_list, last.user_id) = "HIDDEN_MANUAL"

\* C2: a run of the expiry sweep or of the renewal sweep leaves every entry
\* with because_expired = false unchanged, whatever the account's expiration
\* timestamp is.
C2_SweepsKeepManual ==
    (last.op \in {"_add_expired_users", "_remove_renewed_users"}) =>
        \A r \in last.pre :
            r.because_expired = FALSE => RowsOf(tchap_red_list, r.user_id) = {r}

\* A renewal sweep has run over a manual entry of an account whose expiration
\* timestamp is in the future.
C2_Witness ==
    /\ last.op = "_remove_renewed_users"
    /\ \E r \in last.pre :
           /\ r.because_expired = FALSE
           /\ r.user_id \in ValidAt(last.now_ms)
           /\ r \in tchap_red_list

\* C3: between operations every cached status equals the status of the
\* persisted row, and a status read returns the status of the persisted row,
\* never a value cached before a write.
C3_CacheCoherence ==
    /\ \A u \in DOMAIN cache : cache[u] = _get_user_status_txn(tchap_red_list, u)
    /\ last.read => last.status = _get_user_status_txn(last.pre, last.user_id)

\* An update served its status read from the cache, then wrote: the cached
\* value is gone and the row differs from it.
C3_Witness ==
    /\ IsUpdate
    /\ last.ok
    /\ Len(last.db_calls) = 1
    /\ Wrote
    /\ last.user_id \notin DOMAIN cache
    /\ last.status # _get_user_status_txn(tchap_red_list, last.user_id)

\* C4: update_red_list_status inserts an entry with because_expired = false
\* from VISIBLE with hide_profile = true, deletes the entry from HIDDEN_MANUAL
\* with hide_profile = false, and changes nothing from VISIBLE with
\* hide_profile = false and from HIDDEN_MANUAL with hide_profile = true.
C4_ManualTransitions ==
    IsUpdate =>
        LET u == last.user_id
            before == StateOf(last.pre, u)
        IN /\ Others(tchap_red_list, u) = Others(last.pre, u)
           /\ (before = "VISIBLE" /\ last.desired) =>
                  /\ RowsOf(tchap_red_list, u) = {Row(u, FALSE)}
                  /\ _get_user_status_txn(tchap_red_list, u) = <<TRUE, FALSE>>
           /\ (before = "HIDDEN_MANUAL" /\ ~last.desired) =>
                  /\ RowsOf(tchap_red_list, u) = {}
                  /\ _get_user_status_txn(tchap_red_list, u) = <<FALSE, FALSE>>
           /\ (before = "VISIBLE" /\ ~last.desired) =>
                  tchap_red_list = last.pre /\ ~Wrote
           /\ (before = "HIDDEN_MANUAL" /\ last.desired) =>
                  tchap_red_list = last.pre /\ ~Wrote

C4_Witness ==
    /\ IsUpdate
    /\ StateOf(last.pre, last.user_id) = "HIDDEN_MANUAL"
    /\ ~last.desired
    /\ StateOf(tchap_red_list, last.user_id) = "VISIBLE"

\* C5: a run of _add_expired_users gives an entry with because_expired = true
\* to every user whose expiration timestamp is at or before the current time
\* and who has no entry, adds nobody else, and issues exactly one "leave" per
\* user it added (none without a discovery room).
C5_ExpirySweep ==
    (last.op = "_add_expired_users") =>
        LET added == ExpiredAt(last.now_ms) \ UserIds(last.pre)
        IN /\ last.ok
           /\ tchap_red_list = last.pre \cup {Row(u, TRUE) : u \in added}
           /\ SeqToSet(last.ret) = added
           /\ IF config.discovery_room = None
              THEN last.calls = << >>
              ELSE OneCallEach(last.calls, added, "leave")

C5_Witness ==
    /\ last.op = "_add_expired_users"
    /\ last.ret # << >>
    /\ config.discovery_room # None
    /\ \E u \in SeqToSet(last.ret) :
           /\ StateOf(last.pre, u) = "VISIBLE"
           /\ StateOf(tchap_red_list, u) = "HIDDEN_EXPIRED"
           /\ ValidityRow(u, last.now_ms) \in email_account_validity

\* C6: a run of _remove_renewed_users deletes exactly the entries with
\* because_expired = true whose expiration timestamp is strictly in the
\* future, issues exactly one "join" per deleted entry, and a second run with
\* no intervening change deletes nothing and issues no call.
C6_RenewalSweep ==
    (last.op = "_remove_renewed_users") =>
        LET removed == {r \in last.pre :
                           r.because_expired /\ r.user_id \in ValidAt(last.now_ms)}
        IN /\ last.ok
           /\ tchap_red_list = last.pre \ removed
           /\ SeqToSet(last.ret) = UserIds(removed)
           /\ IF config.discovery_room = None
              THEN last.calls = << >>
              ELSE OneCallEach(last.calls, UserIds(removed), "join")
           /\ last.again =>
                  tchap_red_list = last.pre /\ last.ret = << >> /\ last.calls = << >>

C6_Witness ==
    /\ last.op = "_remove_renewed_users"
    /\ config.discovery_room # None
    /\ \E u \in SeqToSet(last.ret) :
           /\ StateOf(last.pre, u) = "HIDDEN_EXPIRED"
           /\ StateOf(tchap_red_list, u) = "VISIBLE"
    /\ Len(last.calls) = 1

\* C7: with a discovery room configured, an update_red_list_status call that
\* changes hidden/visible issues exactly one membership call with sender =
\* target = the user and room = the discovery room, "leave" when the user
\* becomes hidden and "join" when the user becomes visible; without a
\* discovery room no operation issues a membership call.
C7_DiscoveryMirror ==
    /\ config.discovery_room = None => last.calls = << >>
    /\ (/\ IsUpdate
        /\ config.discovery_room # None
        /\ (RowsOf(last.pre, last.user_id) = {})
               # (RowsOf(tchap_red_list, last.user_id) = {})) =>
           last.calls =
               <<[sender |-> last.user_id, target |-> last.user_id,
                  room_id |-> config.discovery_room,
                  new_membership |->
                      IF RowsOf(tchap_red_list, last.user_id) # {}
                      THEN "leave" ELSE "join"]>>

C7_Witness ==
    /\ IsUpdate
    /\ config.discovery_room # None
    /\ StateOf(last.pre, last.user_id) = "HIDDEN_MANUAL"
    /\ StateOf(tchap_red_list, last.user_id) = "VISIBLE"
    /\ last.calls = <<MembershipCall(last.user_id, "join")>>

\* C8: issuing the same hide_profile update twice in a row produces the same
\* final state as issuing it once (the second call changes nothing), and the
\* second call performs no persistence write when the state it finds is
\* HIDDEN_MANUAL or VISIBLE matching the desired value.
C8_Idempotence ==
    (IsUpdate /\ last.again) =>
        /\ tchap_red_list = last.pre
        /\ ((StateOf(last.pre, last.user_id) = "HIDDEN_MANUAL" /\ last.desired)
              \/ (StateOf(last.pre, last.user_id) = "VISIBLE" /\ ~last.desired)) =>
               ~Wrote

\* C9: a second run of _add_expired_users in a row, with no account validity
\* change in between, raises no duplicate-key failure, adds no user who
\* already has an entry, issues no "leave" for such a user, and, the set of
\* expired accounts being the same, inserts nothing and issues no call.
C9_ExpirySweepIdempotent ==
    (last.op = "_add_expired_users" /\ last.again) =>
        /\ last.ok
        /\ SeqToSet(last.ret) \cap UserIds(last.pre) = {}
        /\ \A i \in 1..Len(last.calls) : last.calls[i].target \notin UserIds(last.pre)
        /\ last.same_expired =>
               tchap_red_list = last.pre /\ last.ret = << >> /\ last.calls = << >>

C9_Witness ==
    /\ last.op = "_add_expired_users"
    /\ last.again
    /\ last.same_expired
    /\ config.discovery_room # None
    /\ \E r \in last.pre : r.because_expired /\ r.user_id \in ExpiredAt(last.now_ms)
    /\ last.ret = << >>

\* C10: a status read returns in_list = true iff a persisted entry exists for
\* the user, and never the pair (false, true).
C10_StatusShape ==
    /\ \A u \in Users :
           LET s == _get_user_status(tchap_red_list, cache, u).ret
           IN /\ s[1] <=> RowsOf(tchap_red_list, u) # {}
              /\ ~s[1] => ~s[2]
    /\ last.read =>
           /\ last.status[1] <=> RowsOf(last.pre, last.user_id) # {}
           /\ ~last.status[1] => ~last.status[2]

\* A read found no entry for a user whose account is expired.
C10_Witness ==
    /\ last.op = "check_user_in_red_list"
    /\ last.status = <<FALSE, FALSE>>
    /\ last.user_id \in ExpiredAt(now_ms)
    /\ last.user_id \in DOMAIN cache

\* The number of status reads among the database calls of the last operation.
StatusReads ==
    Cardinality({i \in 1..Len(last.db_calls) :
                     last.db_calls[i] = "tchap_red_list_get_status"})

\* C11: check_user_in_red_list answers true for a user who is HIDDEN_MANUAL or
\* HIDDEN_EXPIRED and false for a VISIBLE one, whatever because_expired is;
\* the status it and update_red_list_status read is the status of the table,
\* it comes through the one cache (a read that follows a read of the same
\* user makes no database call) and the cache holds it afterwards.
C11_DirectoryFilter ==
    /\ last.op = "check_user_in_red_list" =>
           /\ last.result = (StateOf(last.pre, last.user_id)
                                 \in {"HIDDEN_MANUAL", "HIDDEN_EXPIRED"})
           /\ last.user_id \in DOMAIN cache
           /\ cache[last.user_id] = last.status
           /\ tchap_red_list = last.pre
    /\ last.read =>
           /\ last.status = _get_user_status_txn(last.pre, last.user_id)
           /\ last.was_fresh => StatusReads = 0

C11_Witness ==
    /\ last.op = "check_user_in_red_list"
    /\ StateOf(last.pre, last.user_id) = "HIDDEN_MANUAL"
    /\ last.result = TRUE
    /\ last.status = <<TRUE, FALSE>>

\* C12: a step in which update_red_list_status handles an account data type
\* other than ACCOUNT_DATA_TYPE makes no database call (no status read
\* either), leaves the cache and the red list table as they were and issues
\* no membership call, whatever the content.
C12_DataKindFilter ==
    [][(/\ last'.op = "update_red_list_status"
        /\ last'.account_data_type # ACCOUNT_DATA_TYPE)
       => (/\ last'.db_calls = << >>
           /\ ~last'.read
           /\ last'.calls = << >>
           /\ last'.ok
           /\ UNCHANGED <<tchap_red_list, cache, fresh>>)]_vars

C12_Witness ==
    /\ last.op = "update_red_list_status"
    /\ last.account_data_type = OTHER_DATA_TYPE
    /\ last.hide_profile = "true"
    /\ config.discovery_room # None
    /\ StateOf(tchap_red_list, last.user_id) = "VISIBLE"
    /\ last.user_id \notin DOMAIN cache

\* C13: update_red_list_status gives the same result for a content without
\* the hide_profile key as for one with hide_profile = false; for a user who
\* is HIDDEN_MANUAL and has not been read since the last write, the content
\* without the key makes one status read and one write and leaves the user
\* without an entry.
C13_MissingField ==
    /\ \A u \in Users :
           update_red_list_status(config, tchap_red_list, cache, u,
                                  ACCOUNT_DATA_TYPE, [hide_profile |-> "missing"])
             = update_red_list_status(config, tchap_red_list, cache, u,
                                      ACCOUNT_DATA_TYPE, [hide_profile |-> "false"])
    /\ (/\ IsUpdate
        /\ last.hide_profile = "missing"
        /\ StateOf(last.pre, last.user_id) = "HIDDEN_MANUAL"
        /\ ~last.was_fresh)
       => (/\ last.db_calls = <<"tchap_red_list_get_status",
                                 "tchap_red_list_remove">>
           /\ last.ok
           /\ RowsOf(tchap_red_list, last.user_id) = {}
           /\ _get_user_status_txn(tchap_red_list, last.user_id) = <<FALSE, FALSE>>)

C13_Witness ==
    /\ IsUpdate
    /\ last.hide_profile = "missing"
    /\ StateOf(last.pre, last.user_id) = "HIDDEN_MANUAL"
    /\ ~last.was_fresh
    /\ StateOf(tchap_red_list, last.user_id) = "VISIBLE"

\* C14: a status read of a user who has not been read since the last write
\* to their entry (or never) makes exactly one database call; a status read
\* of a user who has been read since then makes none.
C14_ReadThroughCaching ==
    last.read => StatusReads = (IF last.was_fresh THEN 0 ELSE 1)

C14_Witness ==
    /\ last.op = "check_user_in_red_list"
    /\ StateOf(last.pre, last.user_id) = "HIDDEN_MANUAL"
    /\ last.was_fresh
    /\ last.db_calls = << >>

\* C17: the expiry sweep and the renewal sweep run only when
\* use_email_account_validity is true (and do run then); when it is false
\* the red list table never holds an entry with because_expired = true.
C17_SweepsGated ==
    /\ last.op \in {"_add_expired_users", "_remove_renewed_users"}
           => config.use_email_account_validity
    /\ ~config.use_email_account_validity
           => \A u \in Users : StateOf(tchap_red_list, u) # "HIDDEN_EXPIRED"

C17_Witness ==
    /\ ~config.use_email_account_validity
    /\ last.op = "check_user_in_red_list"
    /\ last.result = TRUE
    /\ StateOf(tchap_red_list, last.user_id) = "HIDDEN_MANUAL"

\* C16: _add_to_red_list for a user who already has an entry fails; the
\* table is what it was (the entry keeps its because_expired flag), the user
\* still has exactly one entry and no membership call is issued.
C16_DuplicateEntry ==
    /\ (last.op = "_add_to_red_list" /\ RowsOf(last.pre, last.user_id) # {})
           => (/\ ~last.ok
               /\ tchap_red_list = last.pre
               /\ last.calls = << >>)
    /\ (last.op = "_add_to_red_list" /\ RowsOf(last.pre, last.user_id) = {})
           => last.ok
    /\ \A u \in Users : Cardinality(RowsOf(tchap_red_list, u)) <= 1

C16_Witness ==
    /\ last.op = "_add_to_red_list"
    /\ StateOf(last.pre, last.user_id) = "HIDDEN_EXPIRED"
    /\ config.discovery_room # None
    /\ ~last.ok
    /\ StateOf(tchap_red_list, last.user_id) = "HIDDEN_EXPIRED"

\* The update_red_list_status calls in flight.
InFlight == BagToSet(tasks)

\* The transaction behind a pending list of calls committed and invalidated
\* the cache entry of every user a call is for.
AfterCommit(p) ==
    /\ p.committed
    /\ \A i \in 1..Len(p.calls) : p.calls[i].target \in p.invalidated

C19_SideEffectOrdering ==
    /\ \A t \in InFlight :
           /\ t.pc = "membership" => (t.pending.calls # << >> /\ AfterCommit(t.pending))
           /\ t.pc # "membership" => t.pending = NoPending
    /\ \A k \in DOMAIN loops : AfterCommit(loops[k]) \/ loops[k] = NoPending
    /\ last.op = "update_room_membership" => last.ok

C19_Witness ==
    /\ last.op = "update_room_membership"
    /\ last.calls = <<MembershipCall(last.user_id, "join")>>
    /\ StateOf(tchap_red_list, last.user_id) = "VISIBLE"
    /\ loops["_add_expired_users"] = NoPending
    /\ \E t \in InFlight : t.pc = "get_status"

\* C20: with update_red_list_status calls for one user and the sweeps
\* interleaved at their awaits, no write of update_red_list_status fails:
\* the insert never meets an existing entry and the update of the flag never
\* misses its entry.
C20_CheckThenAct == failed = {}

\* C15: when use_email_account_validity is true and the account validity
\* table does not exist, _setup_db fails, and once it has failed the module
\* is not active: no notification, directory query or sweep that comes after
\* the failure gets as far as a successful database call.
C15_ConfigError ==
    /\ (/\ config.use_email_account_validity
        /\ "email_account_validity" \notin tables
        /\ setup # "pending") => setup = "failed"
    /\ setup = "failed" =>
           ~(/\ last.op \in {"update_red_list_status", "check_user_in_red_list",
                              "_add_expired_users", "_remove_renewed_users"}
             /\ last.ok
             /\ last.db_calls # << >>)

\* The step deletes the entry of a user whose entry had because_expired = true.
DeletesExpired(u) ==
    Row(u, TRUE) \in tchap_red_list /\ RowsOf(tchap_red_list', u) = {}

\* The step clears the flag of an entry that had because_expired = true.
ClearsExpired(u) ==
    Row(u, TRUE) \in tchap_red_list /\ Row(u, FALSE) \in tchap_red_list'

\* C21: with notifications and sweeps interleaved at their awaits, a step
\* that deletes an entry with because_expired = true is the transaction of
\* the renewal sweep, and a step that clears the flag of such an entry is the
\* write of an update that read because_expired = true; the delete of a
\* manual unhide never removes an entry whose flag is true when it runs.
C21_SweepOwnership ==
    [][\A u \in Users :
           /\ DeletesExpired(u) =>
                  \E order \in Orders(Users) : SweepTxn("_remove_renewed_users", order)
           /\ ClearsExpired(u) =>
                  \E t \in InFlight : DbWrite(t) /\ t.user_id = u /\ t.status[2]]_vars

\* No update_red_list_status call is in flight and neither sweep has calls
\* left to issue.
Quiescent == tasks = EmptyBag /\ loops = IdleLoops

\* C22: with a discovery room, once every call in flight has completed, the
\* membership call issued last (the last one for its user) is "leave" if the
\* user has a red list entry and "join" if the user has none.
C22_MirrorConsistency ==
    (/\ Quiescent
     /\ config.discovery_room # None
     /\ last.op = "update_room_membership")
        => (last.calls[1].new_membership =
                (IF RowsOf(tchap_red_list, last.user_id) # {} THEN "leave" ELSE "join"))

\* The entries of a table a renewal sweep at time t is due to delete.
RenewalBatch(table, t) ==
    {u \in Users : Row(u, TRUE) \in table /\ u \in ValidAt(t)}

\* C23: a sweep run whose transaction fails leaves the red list table as it
\* was and issues no membership call; the next run of the same sweep, if it
\* succeeds, applies the whole batch: every expired account without an entry
\* is added, every because_expired entry of a valid account is deleted.
C23_SweepAllOrNothing ==
    /\ (last.op \in {"_add_expired_users", "_remove_renewed_users"} /\ ~last.ok)
           => (/\ tchap_red_list = last.pre
               /\ last.calls = << >>
               /\ last.ret = << >>)
    /\ (last.op = "_add_expired_users" /\ last.ok /\ last.after_failure)
           => (/\ SeqToSet(last.ret) = ExpiredAt(last.now_ms) \ UserIds(last.pre)
               /\ tchap_red_list = last.pre \cup {Row(u, TRUE) : u \in SeqToSet(last.ret)}
               /\ config.discovery_room # None
                      => OneCallEach(last.calls, SeqToSet(last.ret), "leave"))
    /\ (last.op = "_remove_renewed_users" /\ last.ok /\ last.after_failure)
           => (/\ SeqToSet(last.ret) = RenewalBatch(last.pre, last.now_ms)
               /\ tchap_red_list = {r \in last.pre : r.user_id \notin SeqToSet(last.ret)}
               /\ config.discovery_room # None
                      => OneCallEach(last.calls, SeqToSet(last.ret), "join"))

C23_Witness ==
    /\ last.op = "_add_expired_users"
    /\ last.ok
    /\ last.after_failure
    /\ last.applied >= 1
    /\ last.ret # << >>
    /\ last.calls # << >>

\* The users the expiry sweep selects at time t (expiration_ts_ms <= t), and
\* those the renewal sweep would select at t if each had a because_expired
\* entry (expiration_ts_ms > t).
ExpiryEligible(t) == ExpiredUsers(email_account_validity, t)
RenewalEligible(t) ==
    RenewedUsers({Row(u, TRUE) : u \in Users}, email_account_validity, t)

\* C26: at every time t the accounts the expiry sweep selects and those the
\* renewal sweep selects are disjoint and together are all accounts with a
\* validity row, an account whose timestamp is exactly t being expired; so a
\* renewal sweep that runs right after an expiry sweep, at the same time,
\* keeps every entry that sweep added, and an expiry sweep that runs right
\* after a renewal sweep re-adds none of the users that sweep removed.
C26_ThresholdsComplementary ==
    /\ [](\A t \in Timestamps :
              /\ ExpiryEligible(t) \cap RenewalEligible(t) = {}
              /\ ExpiryEligible(t) \cup RenewalEligible(t) = UserIds(email_account_validity)
              /\ \A u \in Users : ValidityRow(u, t) \in email_account_validity
                                       => u \in ExpiryEligible(t))
    /\ [][/\ (/\ \E order \in Orders(Users) : RemoveRenewedUsers(order)
               /\ last.op = "_add_expired_users"
               /\ last.now_ms = now_ms)
                  => SeqToSet(last.ret) \cap SeqToSet(last'.ret) = {}
          /\ (/\ \E order \in Orders(Users) : AddExpiredUsers(order)
               /\ last.op = "_remove_renewed_users"
               /\ last.now_ms = now_ms)
                  => SeqToSet(last.ret) \cap SeqToSet(last'.ret) = {}]_vars

\* A renewal sweep has run at time t and kept the because_expired entry of an
\* account whose expiration timestamp is exactly t.
C26_Witness ==
    /\ last.op = "_remove_renewed_users"
    /\ last.ok
    /\ last.now_ms = now_ms
    /\ \E u \in Users :
           /\ ValidityRow(u, now_ms) \in email_account_validity
           /\ Row(u, TRUE) \in last.pre
           /\ Row(u, TRUE) \in tchap_red_list

\* A step in which the validity data stays as it is and no account data
\* notification is handled.
QuietStep ==
    /\ email_account_validity' = email_account_validity
    /\ ~ \E u \in Users, t \in {ACCOUNT_DATA_TYPE, OTHER_DATA_TYPE}, c \in Contents :
             UpdateRedListStatus(u, t, c)

\* Every expired account has an entry, no because_expired entry belongs to
\* an account that expires in the future, and a run of either sweep would
\* write nothing and call nothing.
Converged ==
    /\ ExpiredAt(now_ms) \subseteq UserIds(tchap_red_list)
    /\ \A u \in ValidAt(now_ms) : Row(u, TRUE) \notin tchap_red_list
    /\ \A order \in Orders(Users) :
           LET a == _add_expired_users(config, tchap_red_list, email_account_validity,
                                       cache, now_ms, order)
               r == _remove_renewed_users(config, tchap_red_list, email_account_validity,
                                          cache, now_ms, order)
           IN /\ a.ok /\ a.table = tchap_red_list /\ a.calls = << >>
              /\ r.ok /\ r.table = tchap_red_list /\ r.calls = << >>

\* C24: if from some point on the validity data does not change and no
\* notification is handled, then, both sweeps being run again and again, the
\* system reaches a state it keeps, in which every expired account has an
\* entry, no because_expired entry belongs to an account expiring in the
\* future, and further sweeps change nothing.
C24_Convergence == <>[][QuietStep]_vars => <>[]Converged

\* Both sweeps have done their work: an expired account holds the entry the
\* expiry sweep gave it and a repeated sweep has found nothing to do.
C24_Witness ==
    /\ Converged
    /\ last.op \in {"_add_expired_users", "_remove_renewed_users"}
    /\ last.again
    /\ last.ret = << >>
    /\ \E u \in ExpiredAt(now_ms) : Row(u, TRUE) \in tchap_red_list

\* The last operation was a notification, a directory query or a sweep that
\* went to the database (it made a call that completed, or the call raised).
AccessedTable ==
    /\ last.op \in {"update_red_list_status", "check_user_in_red_list",
                     "_add_expired_users", "_remove_renewed_users"}
    /\ (last.db_calls # << >> \/ ~last.ok)

\* C25: while _setup_db has not completed, no notification, directory query
\* or sweep has accessed the red list table.
C25_TwoPhaseLifecycle == setup = "pending" => ~AccessedTable

\* C27: when the membership call of a manual hide or unhide raises after the
\* write has committed, the entry stays as written (inserted without
\* because_expired for a hide, deleted for an unhide), the other users'
\* entries are untouched, the user's cache entry stays invalidated so that
\* the next status read returns the new state, and update_red_list_status
\* ends in the error.
C27_NoCompensatingRollback ==
    last.raised = "update_room_membership" =>
        /\ last.op = "update_red_list_status"
        /\ Wrote
        /\ ~last.ok
        /\ StateOf(tchap_red_list, last.user_id) =
               (IF last.desired THEN "HIDDEN_MANUAL" ELSE "VISIBLE")
        /\ StateOf(last.pre, last.user_id) # StateOf(tchap_red_list, last.user_id)
        /\ Others(tchap_red_list, last.user_id) = Others(last.pre, last.user_id)
        /\ last.user_id \notin DOMAIN cache
        /\ _get_user_status(tchap_red_list, cache, last.user_id).ret
               = <<last.desired, FALSE>>

\* The leave of a manual hide has raised and the entry is there; the join
\* of an unhide has raised and the entry is gone.
C27_Witness ==
    /\ last.raised = "update_room_membership"
    /\ last.desired
    /\ last.calls = <<MembershipCall(last.user_id, "leave")>>
    /\ Row(last.user_id, FALSE) \in tchap_red_list
====
